---- MODULE Spec2Model ----
(***************************************************************************)
(* BufferHubService (services/bufferhub/BufferHubService.cpp): the client  *)
(* set, the token map, their two mutexes and the calls that touch them,    *)
(* run by concurrent binder threads.  Every call is a sequence of steps    *)
(* whose boundaries are the points where another thread can observe or     *)
(* change shared state: a mutex acquisition, the body of a critical        *)
(* section, an atomic operation on the BufferNode's bitmask.               *)
(*                                                                         *)
(* BufferClient, BufferNode and BufferHubIdGenerator are declared outside  *)
(* BufferHubService.cpp; the parts of them the service relies on are       *)
(* modelled from the design document and marked so in MODEL_MAP.json.      *)
(***************************************************************************)
EXTENDS Integers, FiniteSets, Sequences, TLC

\* ---------------------------------------------------------------- bounds
NumThreads == 2
MaxClients == 4
MaxBuffers == 1
MaxIds == 2
MaxToken == 2
MaxSlots == 3
MaxDesc == 2

Threads == 1..NumThreads
Clients == 1..MaxClients
Ids == 1..MaxIds
Tokens == 0..(MaxToken - 1)
Descs == 1..MaxDesc

NoClient == 0
NoToken == -1
NoThread == 0
NoDesc == 0

VARIABLES
    mClientSet,        \* std::set<wp<BufferClient>>: the clients it holds
    mTokenMap,         \* std::map<uint32_t, wp<BufferClient>>: token -> client, NoClient = no entry
    mClientSetMutex,   \* the thread holding mClientSetMutex, or NoThread
    mTokenMapMutex,    \* the thread holding mTokenMapMutex, or NoThread
    nextId,            \* BufferHubIdGenerator: the next buffer id
    nextClient,        \* the next BufferClient object to be constructed
    node,              \* BufferClient -> the id of its BufferNode
    mask,              \* BufferNode id -> its active-clients bitmask
    bufferDesc,        \* BufferNode id -> its buffer_desc() (width, height, layers, format, usage)
    owner,             \* BufferClient -> the transport holds a strong reference to it
    mClosed,           \* BufferClient -> its close() has completed
    th                 \* per thread: the call it runs, its position and its locals

vars == <<mClientSet, mTokenMap, mClientSetMutex, mTokenMapMutex, nextId,
          nextClient, node, mask, bufferDesc, owner, mClosed, th>>

\* ------------------------------------------------------- token carriers
\* A hidl_handle: null, or a native_handle_t with numFds, numInts and data[0].
NullHandle == [null |-> TRUE, numFds |-> 0, numInts |-> 0, data0 |-> 0]

TokenHandle(token) == [null |-> FALSE, numFds |-> 0, numInts |-> 1, data0 |-> token]

\* The carriers a caller presents: every well-formed one, and three malformed
\* ones (a null handle, one with a file descriptor, one with two integers).
Carriers ==
    {NullHandle}
    \cup {TokenHandle(k) : k \in Tokens}
    \cup {[null |-> FALSE, numFds |-> 1, numInts |-> 1, data0 |-> 0],
          [null |-> FALSE, numFds |-> 0, numInts |-> 2, data0 |-> 0]}

\* The test of line 69 with the numFds test left out.
MalformedIgnoringFds(h) == h.null \/ h.numInts # 1

\* Line 69.
Malformed(h) == h.null \/ h.numFds # 0 \/ h.numInts # 1

\* ------------------------------------------------------------ token map
\* mTokenMap.find(token) taken never to find an entry.
FoundNever(map, token) == FALSE

\* mTokenMap.find(token) taken always to find an entry.
FoundAlways(map, token) == TRUE

\* Lines 81-82 and 269: mTokenMap.find(token) != mTokenMap.end().
Found(map, token) == map[token] # NoClient

\* mTokenMap.erase(iter) left out.
EraseNothing(map, token) == map

\* The erase taking with it every entry of the same client.
EraseAllOfClient(map, token) ==
    [k \in Tokens |-> IF map[k] = map[token] THEN NoClient ELSE map[k]]

\* Line 90.
Erase(map, token) == [map EXCEPT ![token] = NoClient]

Emplace(map, token, c) == [map EXCEPT ![token] = c]

\* The loop of removeTokenByClient stopping after the first entry it erases.
RemoveFirstTokenOfClient(map, c) ==
    IF \E k \in Tokens : map[k] = c
    THEN LET first == CHOOSE k \in Tokens :
                          /\ map[k] = c
                          /\ \A j \in Tokens : map[j] = c => k <= j
         IN  [map EXCEPT ![first] = NoClient]
    ELSE map

RemoveTokenByClient(map, c) ==
    [k \in Tokens |-> IF map[k] = c THEN NoClient ELSE map[k]]

\* --------------------------------------------------- BufferNode bitmask
Pow2(i) == 2 ^ i

Bit(m, i) == (m \div Pow2(i)) % 2

RECURSIVE LowestUnset(_, _)
LowestUnset(m, i) ==
    IF i >= MaxSlots THEN 0
    ELSE IF Bit(m, i) = 0 THEN Pow2(i)
    ELSE LowestUnset(m, i + 1)

FindNextAvailableClientStateMask(m) == LowestUnset(m, 0)

\* A new BufferNode has the bit of its first client set.
InitialMask == 1

\* --------------------------------------------------------- thread state
Idle ==
    [pc |-> "idle", op |-> "none", carrier |-> NullHandle, target |-> NoClient,
     valid |-> TRUE, token |-> NoToken, originWp |-> NoClient,
     origin |-> NoClient, client |-> NoClient, cur |-> 0, csm |-> 0,
     desc |-> NoDesc, fd |-> TRUE, it |-> 0, held |-> NoClient,
     clientCount |-> <<>>, tokenCount |-> <<>>, ret |-> "none"]

At(t, where) == th[t].pc = where

Set(t, r) == th' = [th EXCEPT ![t] = r]

\* originClient (an sp<>) is in scope from the promote to the return.
HoldsOrigin(t, c) ==
    /\ th[t].origin = c
    /\ th[t].pc \in {"imp_cas", "imp_reg_lock", "imp_cb"}

\* client (an sp<>) is in scope from its construction to the return.
HoldsClient(t, c) ==
    /\ th[t].client = c
    /\ th[t].pc \in {"alloc_cb", "imp_reg_lock", "imp_cb"}

\* The sp<> a promote() of debug yields is in scope to the end of the loop
\* body (lines 154-164, 230-239).
HoldsPromoted(t, c) ==
    /\ c # NoClient
    /\ th[t].held = c

\* The strong reference count of c is positive: wp<>::promote() succeeds.
Alive(c) ==
    /\ c # NoClient
    /\ c < nextClient
    /\ \/ owner[c]
       \/ \E t \in Threads :
              HoldsOrigin(t, c) \/ HoldsClient(t, c) \/ HoldsPromoted(t, c)

\* Line 94: originClientWp.promote() yields a client.
Promote(c) == Alive(c)

\* A thread inside BufferClient::duplicate or BufferClient::close of c
\* (the two exclude each other on one client).
ClientBusy(c) ==
    \E t \in Threads :
        /\ th[t].target = c
        /\ th[t].pc \notin {"idle", "done"}

\* The model constructs at most MaxClients BufferClient objects and at most
\* MaxBuffers valid BufferNodes, and draws at most MaxIds buffer ids.
ClientAvailable == nextClient <= MaxClients

NodeAvailable == Cardinality({b \in Ids : mask[b] # 0}) < MaxBuffers

\* The locals a finished call leaves to be read: its result and what the
\* result is about.
Result(r, status) ==
    [Idle EXCEPT !.pc = "done", !.op = r.op, !.carrier = r.carrier,
                 !.valid = r.valid, !.token = r.token, !.origin = r.origin,
                 !.client = r.client, !.csm = r.csm, !.desc = r.desc,
                 !.fd = r.fd, !.clientCount = r.clientCount,
                 !.tokenCount = r.tokenCount, !.ret = status]

\* -------------------------------------------------------- allocateBuffer
\* node == nullptr || !node->IsValid(), taken never to hold.
NodeUnusableNever(valid) == FALSE

\* Line 45.
NodeUnusable(valid) == ~valid

\* mClientSet.emplace(client) left out.
ClientSetEmplaceNothing(set, c) == set

\* Lines 55 and 115.
ClientSetEmplace(set, c) == set \cup {c}

\* The description a caller gives: the calls are told apart by giving the
\* n-th one the n-th description (of MaxDesc, then over again).
DescriptionGiven(n) == ((n - 1) % MaxDesc) + 1

\* Lines 35-55: the BufferNode is made from the fields of the description
\* (an id is drawn whatever happens); an invalid node ends the call, with no
\* client and empty traits; a valid one gets its first BufferClient, which is
\* added to the client set under mClientSetMutex.
AllocateBuffer(t) ==
    /\ At(t, "idle")
    /\ nextId <= MaxIds
    /\ nextId' = nextId + 1
    /\ \E valid \in BOOLEAN, description \in {DescriptionGiven(nextId)} :
        IF NodeUnusable(valid)
        THEN /\ Set(t, Result([Idle EXCEPT !.op = "allocate", !.valid = valid],
                              "ALLOCATION_FAILED"))
             /\ UNCHANGED <<nextClient, node, mask, bufferDesc, mClientSet,
                            mClientSetMutex>>
        ELSE /\ NodeAvailable
             /\ ClientAvailable
             /\ nextClient' = nextClient + 1
             /\ node' = [node EXCEPT ![nextClient] = nextId]
             /\ mask' = [mask EXCEPT ![nextId] = InitialMask]
             /\ bufferDesc' = [bufferDesc EXCEPT ![nextId] = description]
             /\ mClientSetMutex = NoThread
             /\ mClientSetMutex' = t
             /\ mClientSet' = ClientSetEmplace(mClientSet, nextClient)
             /\ Set(t, [Idle EXCEPT !.pc = "alloc_cb", !.op = "allocate",
                                    !.valid = valid, !.client = nextClient,
                                    !.desc = description])
    /\ UNCHANGED <<mTokenMap, mTokenMapMutex, owner, mClosed>>

\* Lines 57-64: the callback hands the client to the transport, then the
\* return releases mClientSetMutex.
AllocateReturn(t) ==
    /\ At(t, "alloc_cb")
    /\ owner' = [owner EXCEPT ![th[t].client] = TRUE]
    /\ mClientSetMutex' = NoThread
    /\ Set(t, Result(th[t], "NO_ERROR"))
    /\ UNCHANGED <<bufferDesc, mClientSet, mTokenMap, mTokenMapMutex, nextId, nextClient,
                   node, mask, mClosed>>

\* ---------------------------------------------------------- importBuffer
\* No thread but t holds a strong reference to c.
NoOtherRef(t, c) ==
    \A u \in Threads \ {t} :
        ~HoldsOrigin(u, c) /\ ~HoldsClient(u, c) /\ ~HoldsPromoted(u, c)

\* The last strong reference to c is the one thread t holds.
LastRef(t, c) == ~owner[c] /\ NoOtherRef(t, c)

\* The return of importBuffer drops originClient; when that was the last
\* strong reference the BufferClient is destroyed, and a client that was
\* never closed deregisters itself first (onClientClosed).
AfterReturn(t, r) ==
    IF LastRef(t, th[t].origin) /\ ~mClosed[th[t].origin]
    THEN [r EXCEPT !.pc = "rm_lock", !.target = th[t].origin]
    ELSE r

\* mTokenMapMutex excluding nobody.
TokenMapMutexIgnored == TRUE

\* A std::lock_guard on mTokenMapMutex can be constructed.
TokenMapMutexFree == mTokenMapMutex = NoThread

\* Lines 67-80: the carrier is checked; a malformed one ends the call; the
\* token is read from data[0] and mTokenMapMutex is taken.
ImportBuffer(t) ==
    /\ At(t, "idle")
    /\ \E h \in Carriers :
        IF Malformed(h)
        THEN /\ Set(t, Result([Idle EXCEPT !.op = "import", !.carrier = h],
                              "INVALID_TOKEN"))
             /\ UNCHANGED mTokenMapMutex
        ELSE /\ TokenMapMutexFree
             /\ mTokenMapMutex' = t
             /\ Set(t, [Idle EXCEPT !.pc = "imp_find", !.op = "import",
                                    !.carrier = h, !.token = h.data0])
    /\ UNCHANGED <<bufferDesc, mClientSet, mTokenMap, mClientSetMutex, nextId, nextClient,
                   node, mask, owner, mClosed>>

\* Lines 81-89: the lookup; an absent token ends the call (the callback runs
\* under the mutex, the return releases it).
ImportFind(t) ==
    /\ At(t, "imp_find")
    /\ IF Found(mTokenMap, th[t].token)
       THEN /\ Set(t, [th[t] EXCEPT !.pc = "imp_erase",
                                    !.originWp = mTokenMap[th[t].token]])
            /\ UNCHANGED mTokenMapMutex
       ELSE /\ Set(t, Result(th[t], "INVALID_TOKEN"))
            /\ mTokenMapMutex' = NoThread
    /\ UNCHANGED <<bufferDesc, mClientSet, mTokenMap, mClientSetMutex, nextId, nextClient,
                   node, mask, owner, mClosed>>

\* Lines 90-91: the entry is erased and mTokenMapMutex released.
ImportErase(t) ==
    /\ At(t, "imp_erase")
    /\ mTokenMap' = Erase(mTokenMap, th[t].token)
    /\ mTokenMapMutex' = NoThread
    /\ Set(t, [th[t] EXCEPT !.pc = "imp_promote"])
    /\ UNCHANGED <<bufferDesc, mClientSet, mClientSetMutex, nextId, nextClient, node, mask,
                   owner, mClosed>>

\* Lines 94-103 and the load that opens AddNewActiveClientsBitToMask: the
\* weak reference is promoted; a dead client ends the call.
ImportPromote(t) ==
    /\ At(t, "imp_promote")
    /\ IF Promote(th[t].originWp)
       THEN Set(t, [th[t] EXCEPT !.pc = "imp_cas", !.origin = th[t].originWp,
                                 !.cur = mask[node[th[t].originWp]]])
       ELSE Set(t, Result(th[t], "BUFFER_FREED"))
    /\ UNCHANGED <<bufferDesc, mClientSet, mTokenMap, mClientSetMutex, mTokenMapMutex,
                   nextId, nextClient, node, mask, owner, mClosed>>

\* clientStateMask == 0U, taken never to hold.
NoSlotNever(clientStateMask) == FALSE

\* Line 105.
NoSlot(clientStateMask) == clientStateMask = 0

\* compare_exchange of the bitmask taken to succeed on any current value.
CasBlind(current, expected) == TRUE

\* compare_exchange_weak(expected, updated) of the bitmask succeeds when the
\* bitmask still holds the value the candidate bit was computed from.
Cas(current, expected) == current = expected

\* Lines 103-112: one round of the compare-and-swap loop of
\* AddNewActiveClientsBitToMask on the clone's BufferNode.  No free bit ends
\* the call with MAX_CLIENT (the clone, registered nowhere, is dropped); a
\* successful swap sets the bit; a failed one reloads the bitmask.
ImportAddSlot(t) ==
    /\ At(t, "imp_cas")
    /\ LET b == node[th[t].origin]
           bit == FindNextAvailableClientStateMask(th[t].cur)
       IN  IF NoSlot(bit)
           THEN /\ Set(t, AfterReturn(t, Result(th[t], "MAX_CLIENT")))
                /\ UNCHANGED <<mask, nextClient, node>>
           ELSE IF Cas(mask[b], th[t].cur)
           THEN /\ ClientAvailable
                /\ mask' = [mask EXCEPT ![b] = th[t].cur + bit]
                /\ nextClient' = nextClient + 1
                /\ node' = [node EXCEPT ![nextClient] = b]
                /\ Set(t, [th[t] EXCEPT !.pc = "imp_reg_lock", !.csm = bit,
                                        !.client = nextClient])
           ELSE /\ Set(t, [th[t] EXCEPT !.cur = mask[b]])
                /\ UNCHANGED <<mask, nextClient, node>>
    /\ UNCHANGED <<bufferDesc, mClientSet, mTokenMap, mClientSetMutex, mTokenMapMutex,
                   nextId, owner, mClosed>>

\* Lines 114-115: mClientSetMutex is taken and the new client is added.
ImportRegister(t) ==
    /\ At(t, "imp_reg_lock")
    /\ mClientSetMutex = NoThread
    /\ mClientSetMutex' = t
    /\ mClientSet' = ClientSetEmplace(mClientSet, th[t].client)
    /\ Set(t, [th[t] EXCEPT !.pc = "imp_cb"])
    /\ UNCHANGED <<bufferDesc, mTokenMap, mTokenMapMutex, nextId, nextClient, node, mask,
                   owner, mClosed>>

\* The copy of the description left out.
BufferDescOfNone(c) == NoDesc

\* Lines 117-120: the description is copied from the new client's BufferNode.
BufferDescOf(c) == bufferDesc[node[c]]

\* Lines 117-129: the callback hands the new client and the description of
\* its BufferNode to the transport, then the return releases mClientSetMutex
\* and drops originClient.
ImportReturn(t) ==
    /\ At(t, "imp_cb")
    /\ owner' = [owner EXCEPT ![th[t].client] = TRUE]
    /\ mClientSetMutex' = NoThread
    /\ Set(t, AfterReturn(t, Result([th[t] EXCEPT !.desc = BufferDescOf(th[t].client)],
                                    "NO_ERROR")))
    /\ UNCHANGED <<bufferDesc, mClientSet, mTokenMap, mTokenMapMutex, nextId, nextClient,
                   node, mask, mClosed>>

\* ------------------------------------- BufferClient::duplicate, registerToken
\* The transport calls duplicate on an active client it holds, which calls
\* registerToken(this).  Lines 264-268: mTokenMapMutex is taken and a first
\* token is drawn from mTokenEngine.
Duplicate(t) ==
    /\ At(t, "idle")
    /\ TokenMapMutexFree
    /\ mTokenMapMutex' = t
    /\ \E c \in Clients, k \in Tokens :
        /\ owner[c]
        /\ ~mClosed[c]
        /\ ~ClientBusy(c)
        /\ Set(t, [Idle EXCEPT !.pc = "reg_test", !.op = "duplicate",
                               !.target = c, !.token = k])
    /\ UNCHANGED <<bufferDesc, mClientSet, mTokenMap, mClientSetMutex, nextId, nextClient,
                   node, mask, owner, mClosed>>

\* Lines 267-280: a token in use sends the loop round to draw again; a free
\* one is entered with the client and returned, and the return releases the
\* mutex.
RegisterToken(t) ==
    /\ At(t, "reg_test")
    /\ IF Found(mTokenMap, th[t].token)
       THEN /\ \E k \in Tokens : Set(t, [th[t] EXCEPT !.token = k])
            /\ UNCHANGED <<mTokenMap, mTokenMapMutex>>
       ELSE /\ mTokenMap' = Emplace(mTokenMap, th[t].token, th[t].target)
            /\ mTokenMapMutex' = NoThread
            /\ Set(t, [Result(th[t], "NO_ERROR") EXCEPT !.origin = th[t].target])
    /\ UNCHANGED <<bufferDesc, mClientSet, mClientSetMutex, nextId, nextClient, node, mask,
                   owner, mClosed>>

\* ------------------------------------- BufferClient::close, onClientClosed
\* The transport calls close on an active client it holds, which calls
\* onClientClosed(this).  Line 294: removeTokenByClient takes mTokenMapMutex.
Close(t) ==
    /\ At(t, "idle")
    /\ TokenMapMutexFree
    /\ mTokenMapMutex' = t
    /\ \E c \in Clients :
        /\ owner[c]
        /\ ~mClosed[c]
        /\ ~ClientBusy(c)
        /\ Set(t, [Idle EXCEPT !.pc = "rm_scan", !.op = "close", !.target = c])
    /\ UNCHANGED <<bufferDesc, mClientSet, mTokenMap, mClientSetMutex, nextId, nextClient,
                   node, mask, owner, mClosed>>

\* The transport drops its strong reference to a client (the owning process
\* went away or released it).  When that was the last one the BufferClient
\* is destroyed, and a client that was never closed deregisters itself first.
Release(t) ==
    /\ At(t, "idle")
    /\ \E c \in Clients :
        /\ owner[c]
        /\ ~ClientBusy(c)
        /\ owner' = [owner EXCEPT ![c] = FALSE]
        /\ IF NoOtherRef(t, c) /\ ~mClosed[c]
           THEN Set(t, [Idle EXCEPT !.pc = "rm_lock", !.op = "release",
                                    !.target = c])
           ELSE UNCHANGED th
    /\ UNCHANGED <<bufferDesc, mClientSet, mTokenMap, mClientSetMutex, mTokenMapMutex,
                   nextId, nextClient, node, mask, mClosed>>

\* Line 294, in a destructor: removeTokenByClient takes mTokenMapMutex.
RemoveLock(t) ==
    /\ At(t, "rm_lock")
    /\ TokenMapMutexFree
    /\ mTokenMapMutex' = t
    /\ Set(t, [th[t] EXCEPT !.pc = "rm_scan"])
    /\ UNCHANGED <<bufferDesc, mClientSet, mTokenMap, mClientSetMutex, nextId, nextClient,
                   node, mask, owner, mClosed>>

\* Lines 295-305: the scan of the token map, then the mutex is released.
RemoveScan(t) ==
    /\ At(t, "rm_scan")
    /\ mTokenMap' = RemoveTokenByClient(mTokenMap, th[t].target)
    /\ mTokenMapMutex' = NoThread
    /\ Set(t, [th[t] EXCEPT !.pc = "cc_lock"])
    /\ UNCHANGED <<bufferDesc, mClientSet, mClientSetMutex, nextId, nextClient, node, mask,
                   owner, mClosed>>

\* Line 286: onClientClosed takes mClientSetMutex.
ClosedLock(t) ==
    /\ At(t, "cc_lock")
    /\ mClientSetMutex = NoThread
    /\ mClientSetMutex' = t
    /\ Set(t, [th[t] EXCEPT !.pc = "cc_erase"])
    /\ UNCHANGED <<bufferDesc, mClientSet, mTokenMap, mTokenMapMutex, nextId, nextClient,
                   node, mask, owner, mClosed>>

\* Lines 287-291: the client is looked for and erased and the mutex
\* released; onClientClosed returns to BufferClient::close, which marks the
\* client closed.  The call leaves nothing to read but an import's result.
ClosedErase(t) ==
    /\ At(t, "cc_erase")
    /\ mClientSet' = mClientSet \ {th[t].target}
    /\ mClientSetMutex' = NoThread
    /\ mClosed' = [mClosed EXCEPT ![th[t].target] = TRUE]
    /\ Set(t, IF th[t].op = "import" THEN Result(th[t], th[t].ret) ELSE Idle)
    /\ UNCHANGED <<bufferDesc, mTokenMap, mTokenMapMutex, nextId, nextClient, node, mask,
                   owner>>

\* The call is over and the thread takes the next one.
Return(t) ==
    /\ At(t, "done")
    /\ Set(t, Idle)
    /\ UNCHANGED <<bufferDesc, mClientSet, mTokenMap, mClientSetMutex, mTokenMapMutex,
                   nextId, nextClient, node, mask, owner, mClosed>>

\* ----------------------------------------------------------------- debug
\* The first element of the client set at or after position i (the set is
\* traversed in the order of its elements), NoClient at the end.
NextClientIn(set, i) ==
    IF \E c \in set : c >= i
    THEN CHOOSE c \in set : c >= i /\ \A d \in set : d >= i => c <= d
    ELSE NoClient

\* The first key of the token map at or after i, NoToken at the end.
NextTokenIn(map, i) ==
    IF \E k \in Tokens : k >= i /\ Found(map, k)
    THEN CHOOSE k \in Tokens :
             /\ k >= i /\ Found(map, k)
             /\ \A j \in Tokens : (j >= i /\ Found(map, j)) => k <= j
    ELSE NoToken

\* The count of a buffer set to 1 whether or not it already has a row.
CountOnce(count, b) ==
    [x \in DOMAIN count \cup {b} |-> IF x = b THEN 1 ELSE count[x]]

\* Lines 157-163 and 233-238: the count of buffer b is incremented, or
\* entered as 1 when the buffer has no row yet.
Count(count, b) ==
    IF b \in DOMAIN count
    THEN [count EXCEPT ![b] = @ + 1]
    ELSE [x \in DOMAIN count \cup {b} |-> IF x = b THEN 1 ELSE count[x]]

\* Lines 132-152: without a file descriptor to write to the call ends;
\* otherwise mClientSetMutex is taken for the traversal of the client set.
Debug(t) ==
    /\ At(t, "idle")
    /\ \E fd \in BOOLEAN :
        IF ~fd
        THEN /\ Set(t, Result([Idle EXCEPT !.op = "debug", !.fd = fd], "NO_REPORT"))
             /\ UNCHANGED mClientSetMutex
        ELSE /\ mClientSetMutex = NoThread
             /\ mClientSetMutex' = t
             /\ Set(t, [Idle EXCEPT !.pc = "dbg_clients", !.op = "debug",
                                    !.fd = fd, !.it = 1])
    /\ UNCHANGED <<bufferDesc, mClientSet, mTokenMap, mTokenMapMutex, nextId,
                   nextClient, node, mask, owner, mClosed>>

\* Lines 153-166: the next element of the client set is promoted; a live
\* client is counted for its buffer, an expired one is passed over; at the
\* end of the set the mutex is released.
DebugClient(t) ==
    /\ At(t, "dbg_clients")
    /\ LET c == NextClientIn(mClientSet, th[t].it)
       IN  IF c = NoClient
           THEN /\ mClientSetMutex' = NoThread
                /\ Set(t, [th[t] EXCEPT !.pc = "dbg_tokens_lock"])
           ELSE /\ UNCHANGED mClientSetMutex
                /\ IF Promote(c)
                   THEN Set(t, [th[t] EXCEPT
                                   !.pc = "dbg_client_drop", !.held = c,
                                   !.clientCount = Count(@, node[c])])
                   ELSE Set(t, [th[t] EXCEPT !.it = c + 1])
    /\ UNCHANGED <<bufferDesc, mClientSet, mTokenMap, mTokenMapMutex, nextId,
                   nextClient, node, mask, owner, mClosed>>

\* The end of a loop body of debug drops the promoted sp<>.  When that was
\* the last strong reference the BufferClient is destroyed there, and a
\* client that was never closed deregisters itself first (onClientClosed),
\* on this thread and under the mutex the traversal holds.
AfterBody(t, r, again) ==
    IF LastRef(t, th[t].held) /\ ~mClosed[th[t].held]
    THEN [r EXCEPT !.pc = "rm_lock", !.target = th[t].held, !.held = NoClient]
    ELSE [r EXCEPT !.pc = again, !.it = @ + 1, !.held = NoClient]

\* Line 164: the end of the loop body over the client set.
DebugClientDrop(t) ==
    /\ At(t, "dbg_client_drop")
    /\ Set(t, AfterBody(t, [th[t] EXCEPT !.it = th[t].held], "dbg_clients"))
    /\ UNCHANGED <<bufferDesc, mClientSet, mTokenMap, mClientSetMutex,
                   mTokenMapMutex, nextId, nextClient, node, mask, owner,
                   mClosed>>

\* Lines 168-228: the rows of the buffers are formatted (nothing shared is
\* written), then mTokenMapMutex is taken for the traversal of the token map.
DebugTokensLock(t) ==
    /\ At(t, "dbg_tokens_lock")
    /\ TokenMapMutexFree
    /\ mTokenMapMutex' = t
    /\ Set(t, [th[t] EXCEPT !.pc = "dbg_tokens", !.it = 0])
    /\ UNCHANGED <<bufferDesc, mClientSet, mTokenMap, mClientSetMutex, nextId,
                   nextClient, node, mask, owner, mClosed>>

\* Lines 229-261: the client of the next token is promoted; the token of a
\* live client is counted for its buffer, that of an expired one is passed
\* over; at the end of the map the mutex is released, the report is written
\* and the call returns.
DebugToken(t) ==
    /\ At(t, "dbg_tokens")
    /\ LET k == NextTokenIn(mTokenMap, th[t].it)
       IN  IF k = NoToken
           THEN /\ mTokenMapMutex' = NoThread
                /\ Set(t, Result(th[t], "REPORT"))
           ELSE /\ UNCHANGED mTokenMapMutex
                /\ IF Promote(mTokenMap[k])
                   THEN Set(t, [th[t] EXCEPT
                                   !.pc = "dbg_token_drop", !.it = k,
                                   !.held = mTokenMap[k],
                                   !.tokenCount = Count(@, node[mTokenMap[k]])])
                   ELSE Set(t, [th[t] EXCEPT !.it = k + 1])
    /\ UNCHANGED <<bufferDesc, mClientSet, mTokenMap, mClientSetMutex, nextId,
                   nextClient, node, mask, owner, mClosed>>

\* Line 239: the end of the loop body over the token map.
DebugTokenDrop(t) ==
    /\ At(t, "dbg_token_drop")
    /\ Set(t, AfterBody(t, th[t], "dbg_tokens"))
    /\ UNCHANGED <<bufferDesc, mClientSet, mTokenMap, mClientSetMutex,
                   mTokenMapMutex, nextId, nextClient, node, mask, owner,
                   mClosed>>

\* ------------------------------------------------------------------ Init
Init ==
    /\ mClientSet = {}
    /\ mTokenMap = [k \in Tokens |-> NoClient]
    /\ mClientSetMutex = NoThread
    /\ mTokenMapMutex = NoThread
    /\ nextId = 1
    /\ nextClient = 1
    /\ node = [c \in Clients |-> 0]
    /\ mask = [b \in Ids |-> 0]
    /\ bufferDesc = [b \in Ids |-> NoDesc]
    /\ owner = [c \in Clients |-> FALSE]
    /\ mClosed = [c \in Clients |-> FALSE]
    /\ th = [t \in Threads |-> Idle]

Next ==
    \E t \in Threads :
        \/ AllocateBuffer(t)
        \/ AllocateReturn(t)
        \/ ImportBuffer(t)
        \/ ImportFind(t)
        \/ ImportErase(t)
        \/ ImportPromote(t)
        \/ ImportAddSlot(t)
        \/ ImportRegister(t)
        \/ ImportReturn(t)
        \/ Duplicate(t)
        \/ RegisterToken(t)
        \/ Close(t)
        \/ Release(t)
        \/ RemoveLock(t)
        \/ RemoveScan(t)
        \/ ClosedLock(t)
        \/ ClosedErase(t)
        \/ Debug(t)
        \/ DebugClient(t)
        \/ DebugClientDrop(t)
        \/ DebugTokensLock(t)
        \/ DebugToken(t)
        \/ DebugTokenDrop(t)
        \/ Return(t)

Spec == Init /\ [][Next]_vars

\* A round of registerToken's loop in which mTokenEngine yields k (or, with
\* k drawn and free, the step that enters it).
Draws(t, k) == RegisterToken(t) /\ th'[t].token = k

\* The calls that fill and empty the token map without an import: callers
\* that allocate, mint and close.
MintNext ==
    \E t \in Threads :
        \/ AllocateBuffer(t)
        \/ AllocateReturn(t)
        \/ Duplicate(t)
        \/ RegisterToken(t)
        \/ Close(t)
        \/ RemoveScan(t)
        \/ ClosedLock(t)
        \/ ClosedErase(t)
        \/ Return(t)

\* Those callers, with a thread inside registerToken that keeps running and
\* an mTokenEngine that does not avoid a value for ever: a value it could
\* draw again and again is drawn.
FairMintSpec ==
    /\ Init /\ [][MintNext]_vars
    /\ \A t \in Threads, k \in Tokens : SF_vars(Draws(t, k))

TypeOK ==
    /\ mClientSet \subseteq Clients
    /\ mTokenMap \in [Tokens -> Clients \cup {NoClient}]
    /\ mClientSetMutex \in Threads \cup {NoThread}
    /\ mTokenMapMutex \in Threads \cup {NoThread}
    /\ nextId \in 1..(MaxIds + 1)
    /\ nextClient \in 1..(MaxClients + 1)
    /\ bufferDesc \in [Ids -> Descs \cup {NoDesc}]

\* ----------------------------------------------------------------- claims
\* Thread t takes the step.
Steps(t) == th'[t] # th[t]

Imports(t) == th[t].op = "import"

FullMask == Pow2(MaxSlots) - 1

\* The carrier the interface asks for: a handle that carries one integer and
\* no file descriptor.
OneTokenOnly(h) == ~h.null /\ h.numFds = 0 /\ h.numInts = 1

\* C1: a minted token satisfies at most one import.  The entry a lookup found
\* is still in the token map, under the finder's lock, when the finder erases
\* it, so no second call can have found it; a lookup that finds nothing
\* returns INVALID_TOKEN; and the call that found the token returns NO_ERROR
\* when the minting client is alive at the promote and its buffer has a free
\* slot.
C1_TokenSatisfiesOneImport ==
    /\ [](\A t \in Threads :
            At(t, "imp_erase") =>
                /\ mTokenMapMutex = t
                /\ Found(mTokenMap, th[t].token)
                /\ mTokenMap[th[t].token] = th[t].originWp)
    /\ [][\A t \in Threads :
            /\ (At(t, "imp_find") /\ Steps(t)) =>
                  IF Found(mTokenMap, th[t].token)
                  THEN th'[t].pc = "imp_erase"
                  ELSE th'[t].pc = "done" /\ th'[t].ret = "INVALID_TOKEN"
            /\ (At(t, "imp_erase") /\ Steps(t)) =>
                  ~Found(mTokenMap', th[t].token)
            /\ (At(t, "imp_promote") /\ Steps(t) /\ Alive(th[t].originWp)) =>
                  th'[t].pc = "imp_cas"
            /\ (At(t, "imp_cas") /\ Steps(t)
                  /\ mask[node[th[t].origin]] # FullMask) =>
                  th'[t].pc \in {"imp_cas", "imp_reg_lock"}
            /\ (At(t, "imp_reg_lock") /\ Steps(t)) => th'[t].pc = "imp_cb"
            /\ (At(t, "imp_cb") /\ Steps(t)) => th'[t].ret = "NO_ERROR"
       ]_vars

\* Two calls presented the same token: one was given the client, the other
\* INVALID_TOKEN.
C1_Witness ==
    \E t1, t2 \in Threads :
        /\ t1 # t2
        /\ Imports(t1) /\ Imports(t2)
        /\ th[t1].token = th[t2].token
        /\ th[t1].token # NoToken
        /\ th[t1].ret = "NO_ERROR"
        /\ th[t2].ret = "INVALID_TOKEN"

C3_DistinctSlots ==
    /\ [](\A t1, t2 \in Threads :
            (/\ t1 # t2
             /\ Imports(t1) /\ Imports(t2)
             /\ th[t1].csm # 0 /\ th[t2].csm # 0
             /\ node[th[t1].origin] = node[th[t2].origin])
            => th[t1].csm # th[t2].csm)
    /\ [](\A t \in Threads :
            (Imports(t) /\ th[t].csm # 0) =>
                (mask[node[th[t].origin]] \div th[t].csm) % 2 = 1)
    /\ [][\A t \in Threads :
            (At(t, "imp_cas") /\ Steps(t)) =>
                LET b == node[th[t].origin]
                IN  /\ mask[b] # FullMask => th'[t].ret # "MAX_CLIENT"
                    /\ th'[t].csm # 0 =>
                          /\ (mask[b] \div th'[t].csm) % 2 = 0
                          /\ mask'[b] = mask[b] + th'[t].csm
       ]_vars

\* Two imports of one buffer are in flight, each with its slot assigned.
C3_Witness ==
    \E t1, t2 \in Threads :
        /\ t1 # t2
        /\ th[t1].pc \in {"imp_reg_lock", "imp_cb"}
        /\ th[t2].pc \in {"imp_reg_lock", "imp_cb"}
        /\ node[th[t1].origin] = node[th[t2].origin]
        /\ th[t1].token # th[t2].token
        /\ th[t1].csm # th[t2].csm

\* C4 (as claimed): no importBuffer call returns BUFFER_FREED.
C4_NeverBufferFreed ==
    \A t \in Threads : th[t].ret # "BUFFER_FREED"

\* C5 (as claimed): no importBuffer call completes with NO_ERROR on a clone
\* of a client whose close has completed.
C5_ClosedNotImported ==
    [][\A t \in Threads :
            (At(t, "imp_cb") /\ th'[t].ret = "NO_ERROR") =>
                ~mClosed[th[t].origin]
      ]_vars

\* C6: an allocateBuffer whose node is invalid returns ALLOCATION_FAILED with
\* no client, and leaves the client set, the token map and every client and
\* bitmask as they were.
C6_AllocationFailedNoState ==
    [][\A t \in Threads :
            (At(t, "idle") /\ th'[t].op = "allocate" /\ ~th'[t].valid) =>
                /\ th'[t].pc = "done"
                /\ th'[t].ret = "ALLOCATION_FAILED"
                /\ th'[t].client = NoClient
                /\ mClientSet' = mClientSet
                /\ mTokenMap' = mTokenMap
                /\ UNCHANGED <<nextClient, node, mask, owner, mClosed>>
      ]_vars

\* An allocation failed while clients and tokens were registered.
C6_Witness ==
    \E t \in Threads :
        /\ th[t].op = "allocate" /\ At(t, "done")
        /\ th[t].ret = "ALLOCATION_FAILED"
        /\ mClientSet # {}
        /\ \E k \in Tokens : Found(mTokenMap, k)

\* C7: importBuffer with a malformed carrier returns INVALID_TOKEN in its
\* first step, leaving mTokenMapMutex, the token map and the client set as
\* they were; only a well-formed carrier ever gets to hold mTokenMapMutex or
\* to look a token up.
C7_MalformedRejectedBeforeLookup ==
    /\ [](\A t \in Threads :
            (Imports(t) /\ (mTokenMapMutex = t \/ ~At(t, "done")))
            => OneTokenOnly(th[t].carrier))
    /\ [][\A t \in Threads :
            (At(t, "idle") /\ th'[t].op = "import"
                /\ ~OneTokenOnly(th'[t].carrier)) =>
                /\ th'[t].pc = "done"
                /\ th'[t].ret = "INVALID_TOKEN"
                /\ UNCHANGED <<mTokenMapMutex, mTokenMap, mClientSet>>
       ]_vars

\* A malformed carrier whose integer is an outstanding token was refused
\* while another thread held mTokenMapMutex, and the token is still there.
C7_Witness ==
    \E t \in Threads :
        /\ Imports(t) /\ At(t, "done")
        /\ ~th[t].carrier.null
        /\ ~OneTokenOnly(th[t].carrier)
        /\ th[t].ret = "INVALID_TOKEN"
        /\ Found(mTokenMap, th[t].carrier.data0)
        /\ mTokenMapMutex \notin {NoThread, t}

C9_TokenErasedWhateverTheOutcome ==
    [][\A t \in Threads :
            /\ (At(t, "imp_erase") /\ Steps(t)) =>
                  /\ mTokenMap' = [mTokenMap EXCEPT ![th[t].token] = NoClient]
                  /\ th'[t].pc = "imp_promote"
            /\ (Steps(t) /\ th[t].pc \in {"imp_promote", "imp_cas",
                                          "imp_reg_lock", "imp_cb"}) =>
                  /\ mTokenMap' = mTokenMap
                  /\ th'[t].ret \in {"none", "NO_ERROR", "BUFFER_FREED",
                                     "MAX_CLIENT"}
      ]_vars

\* An import found its token and failed with BUFFER_FREED; the token is
\* gone, and a second import of it was refused.
C9_Witness ==
    \E t1, t2 \in Threads :
        /\ t1 # t2
        /\ Imports(t1) /\ Imports(t2)
        /\ th[t1].ret = "BUFFER_FREED"
        /\ th[t2].ret = "INVALID_TOKEN"
        /\ th[t1].token = th[t2].token
        /\ OneTokenOnly(th[t2].carrier)
        /\ ~Found(mTokenMap, th[t1].token)

RECURSIVE BitCount(_, _)
BitCount(m, i) == IF i >= MaxSlots THEN 0 ELSE Bit(m, i) + BitCount(m, i + 1)

\* The client handles of buffer b that were made and whose close (called, or
\* run by the destructor) has not completed.
OpenClients(b) == {c \in Clients : node[c] = b /\ ~mClosed[c]}

\* C10 (as claimed, for the buffers that still have a client handle): the
\* set bits of a buffer's bitmask are as many as its existing, not closed
\* client handles.
C10_BitsMatchOpenClients ==
    \A b \in Ids :
        OpenClients(b) # {} => BitCount(mask[b], 0) = Cardinality(OpenClients(b))

\* C11: an allocateBuffer that returns NO_ERROR returns a client whose
\* buffer has exactly bit 0 set in its bitmask, and the client is in the
\* client set when the call returns.
C11_AllocatedClientHasBitZeroAndIsRegistered ==
    [][\A t \in Threads :
            (At(t, "alloc_cb") /\ th'[t].pc = "done") =>
                /\ th'[t].ret = "NO_ERROR"
                /\ th'[t].client # NoClient
                /\ mask'[node'[th'[t].client]] = Pow2(0)
                /\ th'[t].client \in mClientSet'
                /\ owner'[th'[t].client]
      ]_vars

\* An allocateBuffer has returned NO_ERROR with a registered client of a
\* buffer whose bitmask is 0b1.
C11_Witness ==
    \E t \in Threads :
        /\ th[t].pc = "done" /\ th[t].op = "allocate"
        /\ th[t].ret = "NO_ERROR"
        /\ th[t].client \in mClientSet
        /\ mask[node[th[t].client]] = 1

\* The entries of the client set that refer to buffer b, and those of them
\* whose client is live.
EntriesOf(b) == {c \in mClientSet : node[c] = b}

LiveEntriesOf(b) == {c \in EntriesOf(b) : Alive(c)}

\* The count the report of thread t shows for buffer b (0: no row).
Listed(t, b) == IF b \in DOMAIN th[t].clientCount THEN th[t].clientCount[b] ELSE 0

\* C12: the report has no row with a count of zero; a step of the traversal
\* counts the entry it visits when and only when its client is live; and
\* when the traversal of the client set ends (the set still locked) each
\* buffer's count is at least the number of its entries that are live and at
\* most the number of its entries, so that a buffer is listed exactly when an
\* entry of it was live, with the number of such entries.
C12_ReportCountsLiveClients ==
    [][\A t \in Threads :
            /\ \A b \in DOMAIN th'[t].clientCount : th'[t].clientCount[b] >= 1
            /\ (At(t, "dbg_clients") /\ Steps(t)) =>
                  LET c == NextClientIn(mClientSet, th[t].it)
                  IN  /\ (c # NoClient /\ Alive(c)) =>
                            th'[t].clientCount = [b \in DOMAIN th[t].clientCount \cup {node[c]} |->
                                                     Listed(t, b) + (IF b = node[c] THEN 1 ELSE 0)]
                      /\ (c # NoClient /\ ~Alive(c)) =>
                            th'[t].clientCount = th[t].clientCount
                      /\ c = NoClient =>
                            /\ th'[t].clientCount = th[t].clientCount
                            /\ \A b \in Ids :
                                  /\ Cardinality(LiveEntriesOf(b)) <= Listed(t, b)
                                  /\ Listed(t, b) <= Cardinality(EntriesOf(b))
      ]_vars

\* A report was made while the client set held two entries of one buffer,
\* one of them expired: the buffer is listed with one client.
C12_Witness ==
    \E t \in Threads, b \in Ids :
        /\ At(t, "dbg_clients")
        /\ NextClientIn(mClientSet, th[t].it) = NoClient
        /\ Cardinality(EntriesOf(b)) = 2
        /\ Cardinality(LiveEntriesOf(b)) = 1
        /\ Listed(t, b) = 1

\* C13 (as claimed): no step a thread takes inside a debug call changes the
\* client set, the token map or a bitmask.
C13_DebugChangesNothing ==
    [][\A t \in Threads :
            (th[t].op = "debug" /\ Steps(t)) =>
                UNCHANGED <<mClientSet, mTokenMap, mask>>
      ]_vars

\* C14: the value registerToken returns was no key of the token map when it
\* was entered, it is entered for the calling client, and no other entry is
\* replaced or removed; a round of the loop that drew a key in use changes
\* nothing.
C14_MintedTokenIsFresh ==
    [][\A t \in Threads :
            (At(t, "reg_test") /\ Steps(t)) =>
                IF th'[t].pc = "done"
                THEN /\ th'[t].token = th[t].token
                     /\ mTokenMap[th[t].token] = NoClient
                     /\ mTokenMap'[th[t].token] = th[t].target
                     /\ \A k \in Tokens \ {th[t].token} : mTokenMap'[k] = mTokenMap[k]
                ELSE /\ mTokenMap[th[t].token] # NoClient
                     /\ mTokenMap' = mTokenMap
      ]_vars

\* A registerToken has returned a token while another token was outstanding.
C14_Witness ==
    \E t \in Threads, k \in Tokens :
        /\ th[t].pc = "done" /\ th[t].op = "duplicate"
        /\ th[t].ret = "NO_ERROR"
        /\ k # th[t].token
        /\ mTokenMap[k] # NoClient
        /\ mTokenMap[th[t].token] = th[t].origin

\* C15: an entry of the token map goes away only when an importBuffer
\* consumes that very token or when its own client is closed (or destroyed):
\* importing another token, minting a token and closing another client leave
\* it in place.
C15_TokenStaysUntilConsumedOrClosed ==
    [][\A k \in Tokens :
            (mTokenMap[k] # NoClient /\ mTokenMap'[k] # mTokenMap[k]) =>
                \E t \in Threads :
                    /\ Steps(t)
                    /\ \/ At(t, "imp_erase") /\ th[t].token = k
                       \/ At(t, "rm_scan") /\ th[t].target = mTokenMap[k]
      ]_vars

\* A client minted two tokens; one was imported and the other is still in
\* the token map.
C15_Witness ==
    \E t \in Threads, k \in Tokens :
        /\ Imports(t) /\ th[t].pc = "done" /\ th[t].ret = "NO_ERROR"
        /\ k # th[t].token
        /\ mTokenMap[th[t].token] = NoClient
        /\ mTokenMap[k] = th[t].origin

C17_ClientSetLockNotHeldAcrossCallback ==
    \A t \in Threads :
        th[t].pc \in {"alloc_cb", "imp_cb"} => mClientSetMutex # t

\* C19 (as claimed): no thread holds mClientSetMutex and mTokenMapMutex at
\* the same time.
C19_NeverBothMutexes ==
    \A t \in Threads : ~(mClientSetMutex = t /\ mTokenMapMutex = t)

\* A step of an allocateBuffer or importBuffer call up to the delivery of
\* its result.
InCall(t) ==
    /\ Steps(t)
    /\ th'[t].op \in {"allocate", "import"}
    /\ th[t].ret = "none"

C18_RegisterTokenTerminates ==
    \A t \in Threads :
        (At(t, "reg_test") /\ \E k \in Tokens : mTokenMap[k] = NoClient)
            ~> (th[t].pc = "done" /\ mTokenMapMutex # t)

\* A registerToken call has drawn a value that is a key of the token map,
\* holds mTokenMapMutex and has a free value left to draw.
C18_Witness ==
    \E t \in Threads, k \in Tokens :
        /\ At(t, "reg_test")
        /\ mTokenMapMutex = t
        /\ mTokenMap[th[t].token] # NoClient
        /\ mTokenMap[k] = NoClient

====
